---- MODULE Spec2Model ----
(***************************************************************************)
(* Model of the IPTV ingestion module of orbiscast                         *)
(* (src/src/modules/iptv/index.ts and parsers/xmltv-parser.ts):            *)
(* the refresh cycle downloadCacheAndFillDb, its two fills, the standalone *)
(* fills fillDbChannels / fillDbProgrammes, the playlist pairing loop,     *)
(* the playlist merge and the XMLTV parser.                                *)
(*                                                                         *)
(* Every await of the source is a suspension point of the single-threaded  *)
(* runtime, so every awaited call is one step of the calling invocation    *)
(* and the steps of concurrent invocations interleave.                     *)
(***************************************************************************)
EXTENDS Integers, Sequences, FiniteSets, TLC

\* ------------------------------------------------------------------ bounds
\* Number of invocation slots (concurrent callers of the exported functions).
NumCallers == 2
\* Number of invocations in one behaviour.
MaxCalls == 2
\* The clock runs over 0..MaxNow.
MaxNow == 1
\* Longest list of stored channels / playlist channels given to the merge.
MaxExisting == 2
MaxPlaylist == 2

\* ------------------------------------------------------------------- values
\* null of the source (Buffer | null, string | null)
Null == "null"

\* ------------------------------------------------------------------ texts
\* The characters of the texts of the model (display names, episode-num
\* values).
Chars(value) ==
    IF value = "S0E5" THEN <<"S", "0", "E", "5">>
    ELSE IF value = "S2E27" THEN <<"S", "2", "E", "2", "7">>
    ELSE IF value = "s1e0" THEN <<"s", "1", "e", "0">>
    ELSE IF value = "E5" THEN <<"E", "5">>
    ELSE IF value = "1.26.0/1" THEN <<"1", ".", "2", "6", ".", "0", "/", "1">>
    ELSE IF value = "0.0." THEN <<"0", ".", "0", ".">>
    ELSE IF value = "4" THEN <<"4">>
    ELSE IF value = ".3." THEN <<".", "3", ".">>
    ELSE IF value = "7" THEN <<"7">>
    ELSE IF value = "102" THEN <<"1", "0", "2">>
    ELSE IF value = "007" THEN <<"0", "0", "7">>
    ELSE IF value = "12a" THEN <<"1", "2", "a">>
    ELSE IF value = "Alpha" THEN <<"A", "l", "p", "h", "a">>
    ELSE IF value = "Beta" THEN <<"B", "e", "t", "a">>
    ELSE IF value = "5 News" THEN <<"5", " ", "N", "e", "w", "s">>
    ELSE <<>>

IsDigit(c) == c \in {"0", "1", "2", "3", "4", "5", "6", "7", "8", "9"}

DigitValue(c) ==
    IF c = "1" THEN 1 ELSE IF c = "2" THEN 2 ELSE IF c = "3" THEN 3
    ELSE IF c = "4" THEN 4 ELSE IF c = "5" THEN 5 ELSE IF c = "6" THEN 6
    ELSE IF c = "7" THEN 7 ELSE IF c = "8" THEN 8 ELSE IF c = "9" THEN 9 ELSE 0

\* the decimal value of a run of digits
RECURSIVE DigitsValue(_)
DigitsValue(ds) ==
    IF ds = <<>> THEN 0
    ELSE DigitsValue(SubSeq(ds, 1, Len(ds) - 1)) * 10 + DigitValue(ds[Len(ds)])

\* \d+ from position i: the position of the last digit of the run (i - 1
\* when cs[i] is no digit)
RECURSIVE RunEnd(_, _)
RunEnd(cs, i) ==
    IF i <= Len(cs) /\ IsDigit(cs[i]) THEN RunEnd(cs, i + 1) ELSE i - 1

\* parseInt(part, 10): the digits the text begins with, NaN when none
ParseInt(cs) ==
    IF RunEnd(cs, 1) >= 1
    THEN [nan |-> FALSE, val |-> DigitsValue(SubSeq(cs, 1, RunEnd(cs, 1)))]
    ELSE [nan |-> TRUE, val |-> 0]


\* ------------------------------------------------------------ channel data
\* ChannelEntry as built by parseChannelEntry and fromPlaylistLine
Channel(xui, id, name, logo, group, url, country, created) ==
    [xui_id |-> xui, tvg_id |-> id, tvg_name |-> name, tvg_logo |-> logo,
     group_title |-> group, url |-> url, country |-> country, created_at |-> created]

\* ---------------------------------------------------------- XMLTV parser
\* /^\d+$/.test(name): one digit or more and nothing else
IsNumericName(name) ==
    /\ Chars(name) # <<>>
    /\ \A i \in 1..Len(Chars(name)) : IsDigit(Chars(name)[i])

\* parseInt(channelNumber, 10)
ParseIntName(name) == ParseInt(Chars(name)).val

\* An element as xml2js hands it over: a bare string, an object whose text
\* is under "_", an object without text (attributes only), or absent.
Str(text) == [kind |-> "string", text |-> text]
Obj(text) == [kind |-> "object", text |-> text]
AttrsOnly == [kind |-> "object", text |-> ""]
Absent == [kind |-> "absent", text |-> ""]

\* extractTextContent: '' for a missing element, the string itself, the
\* "_" of an object when it has a non-empty one, else ''.
extractTextContent(element) ==
    IF element.kind = "absent" THEN ""
    ELSE IF element.kind = "string" THEN element.text
    ELSE IF element.text # "" THEN element.text
    ELSE ""

\* First display-name (the loop keeps the first non-empty text it sees).
RECURSIVE FirstNonEmpty(_)
FirstNonEmpty(names) ==
    IF names = <<>> THEN ""
    ELSE IF extractTextContent(Head(names)) # "" THEN extractTextContent(Head(names))
    ELSE FirstNonEmpty(Tail(names))

\* First display-name consisting of digits only.
RECURSIVE FirstNumeric(_)
FirstNumeric(names) ==
    IF names = <<>> THEN ""
    ELSE IF IsNumericName(extractTextContent(Head(names))) THEN extractTextContent(Head(names))
    ELSE FirstNumeric(Tail(names))

\* String.replace('{channel}', n) over the templates of the model.
ReplaceChannel(template, n) ==
    IF template = "http://s/{channel}" THEN "http://s/" \o n ELSE template

\* parseChannelEntry: el = [id, names, icon]
parseChannelEntry(el, streamBase, ts) ==
    LET tvgName == FirstNonEmpty(el.names)
        channelNumber == FirstNumeric(el.names)
        streamUrl == IF streamBase # "" /\ channelNumber # ""
                     THEN ReplaceChannel(streamBase, channelNumber) ELSE ""
    IN Channel(IF channelNumber # "" THEN ParseIntName(channelNumber) ELSE 0,
               el.id, tvgName, el.icon, "", streamUrl, "", ts)

\* parseProgrammeEntry throws when the element has no attributes
\* (programme.$ is undefined) or start or stop is missing (0 = absent).
ProgrammeThrows(el) == ~el.attrs \/ el.start = 0 \/ el.stop = 0

\* parseDate (../utils): the Date of the instant a time attribute denotes;
\* every time attribute that is present denotes one.
parseDate(attr) == [time |-> attr]

\* parseProgrammeEntry: el = [attrs, start, stop, channel, title]
parseProgrammeEntry(el, ts) ==
    [start |-> parseDate(el.start).time, stop |-> parseDate(el.stop).time,
     start_timestamp |-> parseDate(el.start).time,
     stop_timestamp |-> parseDate(el.stop).time,
     channel |-> el.channel, title |-> extractTextContent(el.title), created_at |-> ts]

RECURSIVE ParseChannels(_, _, _)
ParseChannels(els, streamBase, ts) ==
    IF els = <<>> THEN <<>>
    ELSE <<parseChannelEntry(Head(els), streamBase, ts)>> \o ParseChannels(Tail(els), streamBase, ts)

\* (a loop that a throwing element ends)
RECURSIVE ParseProgrammesAborting(_, _)
ParseProgrammesAborting(els, ts) ==
    IF els = <<>> THEN <<>>
    ELSE IF ProgrammeThrows(Head(els)) THEN <<>>
    ELSE <<parseProgrammeEntry(Head(els), ts)>> \o ParseProgrammesAborting(Tail(els), ts)

\* the programme loop: a throw of parseProgrammeEntry is caught per element
\* (xmltv-parser.ts 50-57, 145-153)
RECURSIVE ParseProgrammes(_, _)
ParseProgrammes(els, ts) ==
    IF els = <<>> THEN <<>>
    ELSE IF ProgrammeThrows(Head(els)) THEN ParseProgrammes(Tail(els), ts)
    ELSE <<parseProgrammeEntry(Head(els), ts)>> \o ParseProgrammes(Tail(els), ts)

EmptyXMLTVData == [channels |-> <<>>, programmes |-> <<>>]

\* parseXMLTVFull: doc is what is at the file path; a failing read
\* (~doc.readable) or a failing parse of the document (~doc.wellformed) is
\* caught and leaves the empty result.
parseXMLTVFull(doc, streamBase, ts) ==
    IF ~doc.readable \/ ~doc.wellformed THEN EmptyXMLTVData
    ELSE [channels |-> ParseChannels(doc.channel, streamBase, ts),
          programmes |-> ParseProgrammes(doc.programme, ts)]

\* parseXMLTV: the programmes-only variant
parseXMLTV(doc, ts) ==
    IF ~doc.readable \/ ~doc.wellformed THEN <<>>
    ELSE ParseProgrammes(doc.programme, ts)

\* --------------------------------------------------------- playlist lines
\* A physical line of the playlist: lead = the raw line starts with white
\* space, kind = what its trimmed text is, text = the trimmed text.
ExtInf(id, name, logo, group, country) ==
    [lead |-> FALSE, kind |-> "extinf", text |-> "#EXTINF:-1", tvg_id |-> id,
     tvg_name |-> name, tvg_logo |-> logo, group_title |-> group, country |-> country]

TextLine(kind, text) ==
    [lead |-> FALSE, kind |-> kind, text |-> text, tvg_id |-> "",
     tvg_name |-> "", tvg_logo |-> "", group_title |-> "", country |-> ""]

UrlLine(text) == TextLine("text", text)
CommentLine == TextLine("comment", "#EXTVLCOPT")
BlankLine == TextLine("blank", "")

\* line.startsWith('#EXTINF:')
StartsWithExtinf(line) == ~line.lead /\ line.kind = "extinf"
\* line.startsWith('#')
StartsWithHash(line) == ~line.lead /\ line.kind \in {"extinf", "comment"}
\* line.trim()
Trim(line) == line.text

\* fromPlaylistLine: the attributes of the #EXTINF: line, url unset
fromPlaylistLine(line) ==
    Channel(0, line.tvg_id, line.tvg_name, line.tvg_logo, line.group_title, "",
            line.country, 0)

\* (a loop that keeps the pending record when a second #EXTINF: line comes)
PairOneKeepsFirst(pending, acc, line, ts) ==
    IF StartsWithExtinf(line)
    THEN [pending |-> IF pending = <<>> THEN <<fromPlaylistLine(line)>> ELSE pending, acc |-> acc]
    ELSE IF pending # <<>> /\ ~StartsWithHash(line) /\ Trim(line) # ""
    THEN [pending |-> <<>>,
          acc |-> Append(acc, [pending[1] EXCEPT !.url = Trim(line), !.created_at = ts])]
    ELSE [pending |-> pending, acc |-> acc]

\* (a loop that does not reset channel after the push)
PairOneKeepsPending(pending, acc, line, ts) ==
    IF StartsWithExtinf(line)
    THEN [pending |-> <<fromPlaylistLine(line)>>, acc |-> acc]
    ELSE IF pending # <<>> /\ ~StartsWithHash(line) /\ Trim(line) # ""
    THEN [pending |-> pending,
          acc |-> Append(acc, [pending[1] EXCEPT !.url = Trim(line), !.created_at = ts])]
    ELSE [pending |-> pending, acc |-> acc]

\* One iteration of the pairing loop (index.ts 163-172, 245-254); pending is
\* <<>> for channel = null, acc the records pushed so far.
PairOne(pending, acc, line, ts) ==
    IF StartsWithExtinf(line)
    THEN [pending |-> <<fromPlaylistLine(line)>>, acc |-> acc]
    ELSE IF pending # <<>> /\ ~StartsWithHash(line) /\ Trim(line) # ""
    THEN [pending |-> <<>>,
          acc |-> Append(acc, [pending[1] EXCEPT !.url = Trim(line), !.created_at = ts])]
    ELSE [pending |-> pending, acc |-> acc]

\* The pairing loop over the lines.
RECURSIVE PairLines(_, _, _, _)
PairLines(lines, pending, acc, ts) ==
    IF lines = <<>> THEN acc
    ELSE PairLines(Tail(lines), PairOne(pending, acc, Head(lines), ts).pending,
                   PairOne(pending, acc, Head(lines), ts).acc, ts)

ParsePlaylist(lines, ts) == PairLines(lines, <<>>, <<>>, ts)

\* ---------------------------------------------------------- playlist merge
\* Map<string, ChannelEntry> in insertion order: a sequence of [key, val].
MapIndex(map, key) ==
    IF \E i \in 1..Len(map) : map[i].key = key
    THEN CHOOSE i \in 1..Len(map) : map[i].key = key
    ELSE 0

MapHas(map, key) == MapIndex(map, key) # 0

\* Map.set: a present key keeps its place and takes the new value
MapSet(map, key, val) ==
    IF MapHas(map, key)
    THEN [map EXCEPT ![MapIndex(map, key)].val = val]
    ELSE Append(map, [key |-> key, val |-> val])

\* Array.from(channelMap.values())
MapValues(map) == [i \in 1..Len(map) |-> map[i].val]

\* (a map that starts from the playlist alone)
IndexExistingNone(existing, map) == map

\* Index existing channels by tvg_id (index.ts 149-153)
RECURSIVE IndexExisting(_, _)
IndexExisting(existing, map) ==
    IF existing = <<>> THEN map
    ELSE IndexExisting(Tail(existing),
                       IF Head(existing).tvg_id # ""
                       THEN MapSet(map, Head(existing).tvg_id, Head(existing))
                       ELSE map)

\* `playlist_${playlistChannels.indexOf(plCh)}`, i the 0-based position
SyntheticKey(i) == "playlist_" \o ToString(i)

\* (a key that forgets the tvg_name and position fallbacks)
PlaylistKeyIdOnly(plCh, i) == plCh.tvg_id

\* plCh.tvg_id || plCh.tvg_name || `playlist_${i}` (index.ts 186)
PlaylistKey(plCh, i) ==
    IF plCh.tvg_id # "" THEN plCh.tvg_id
    ELSE IF plCh.tvg_name # "" THEN plCh.tvg_name
    ELSE SyntheticKey(i)

\* Update of the matched channel (index.ts 181-183)
UpdateExisting(existingCh, plCh) ==
    [existingCh EXCEPT !.url = plCh.url,
                       !.group_title = IF plCh.group_title # "" THEN plCh.group_title ELSE @,
                       !.country = IF plCh.country # "" THEN plCh.country ELSE @]

\* plCh.tvg_id ? channelMap.get(plCh.tvg_id) : null, as an index (0 = none)
MatchIndex(map, plCh) == IF plCh.tvg_id # "" THEN MapIndex(map, plCh.tvg_id) ELSE 0

\* One iteration of the merge loop (index.ts 177-188)
MergeOne(map, plCh, i) ==
    IF MatchIndex(map, plCh) # 0
    THEN [map EXCEPT ![MatchIndex(map, plCh)].val = UpdateExisting(@, plCh)]
    ELSE MapSet(map, PlaylistKey(plCh, i), plCh)

\* The map after the first n playlist channels have been merged
RECURSIVE MergePrefix(_, _, _)
MergePrefix(map, playlistChannels, n) ==
    IF n = 0 THEN map
    ELSE MergeOne(MergePrefix(map, playlistChannels, n - 1), playlistChannels[n], n - 1)

\* The whole merge: index, merge loop, values (index.ts 145-191)
MergeChannels(existingChannels, playlistChannels) ==
    MapValues(MergePrefix(IndexExisting(existingChannels, <<>>), playlistChannels,
                          Len(playlistChannels)))

\* ------------------------------------------------------------- documents
\* The XMLTV documents of the model, by content name.
ChannelEl(id, names, icon) == [id |-> id, names |-> names, icon |-> icon]
ProgrammeEl(start, stop, channel, title) ==
    [attrs |-> TRUE, start |-> start, stop |-> stop, channel |-> channel, title |-> title]
\* a programme element without any attribute
BareProgrammeEl(title) ==
    [attrs |-> FALSE, start |-> 0, stop |-> 0, channel |-> "", title |-> title]

XmlDoc(name) ==
    IF name = "xA" THEN
        [readable |-> TRUE, wellformed |-> TRUE,
         channel |-> <<ChannelEl("a", <<Str("Alpha"), Obj("7")>>, "la")>>,
         programme |-> <<ProgrammeEl(1, 2, "a", Str("t1")), ProgrammeEl(2, 0, "a", Obj("t2"))>>]
    ELSE IF name = "xC" THEN
        [readable |-> TRUE, wellformed |-> TRUE,
         channel |-> <<ChannelEl("b", <<AttrsOnly, Str("Beta")>>, ""),
                       ChannelEl("", <<Str("102")>>, "lc")>>,
         programme |-> <<>>]
    ELSE IF name = "xBad" THEN
        [readable |-> TRUE, wellformed |-> FALSE, channel |-> <<>>, programme |-> <<>>]
    ELSE [readable |-> FALSE, wellformed |-> FALSE, channel |-> <<>>, programme |-> <<>>]

\* What the network can deliver for config.XMLTV, and what the file cache
\* can hold under xmltv.xml before the first cycle.
NetXml == {"xA", "xBad"}
CachedXml == {"xC"}

\* The playlists of the model, by content name (their lines).
PlaylistLines(name) ==
    IF name = "pA" THEN
        <<ExtInf("a", "Alpha", "pl", "News", ""), CommentLine, UrlLine("http://p/a"),
          ExtInf("", "Zed", "", "", ""), ExtInf("", "", "", "", "uk"), BlankLine,
          UrlLine("http://p/z")>>
    ELSE IF name = "pC" THEN
        <<ExtInf("b", "", "", "", "de"), UrlLine("http://p/b"), UrlLine("http://p/stray")>>
    ELSE IF name = "pB" THEN
        <<ExtInf("", "a", "", "", ""), UrlLine("http://p/n"),
          ExtInf("a", "Alpha2", "", "Kids", ""), UrlLine("http://p/a2"),
          ExtInf("a", "Alpha3", "", "", ""), UrlLine("http://p/a3")>>
    ELSE <<>>

\* config.PLAYLIST is the playlist URL ('' when none is configured); what
\* the network can deliver for it.
PlaylistUrl == "http://m/1"
OtherPlaylistUrl == "http://m/2"
NetPlaylist(url) == IF url = OtherPlaylistUrl THEN {"pB"} ELSE {"pA"}
CachedPlaylist == {"pC"}

\* Store contents the first cycle can find.
OldChannel == Channel(0, "a", "Old", "lo", "Sport", "http://old/a", "fr", 0)
OldNoId == Channel(0, "", "NoId", "", "", "http://old/n", "", 0)
OldProgramme ==
    [start |-> 0, stop |-> 1, start_timestamp |-> 0, stop_timestamp |-> 1,
     channel |-> "a", title |-> "t0", created_at |-> 0]

\* an empty store (first start), or the store an earlier run left
InitStores == {[chans |-> <<>>, progs |-> <<>>],
               [chans |-> <<OldChannel, OldNoId>>, progs |-> <<OldProgramme>>]}

\* --------------------------------------------------------------- state
VARIABLES
    chans,      \* store: the channel collection
    progs,      \* store: the programme collection
    cache,      \* file cache: content under xmltv.xml and playlist.m3u
    now,        \* the clock
    config,     \* config.PLAYLIST (the URL, or ''), config.STREAM_BASE_URL
    mrg,        \* the playlist merge on its own: inputs, channelMap, progress
    armed,      \* the periodic scheduler has been armed
    timerSlot,  \* the invocation the scheduler started and waits for, or 0
    calls,      \* invocations so far
    pc,         \* per invocation: where it is suspended
    force,      \* per invocation: the force argument
    content,    \* per invocation: xmltvContent / playlistContent
    data,       \* per invocation: xmltvData
    merged,     \* per invocation: mergedChannels
    result,     \* per invocation: how the call settled
    log,        \* per invocation: the stages of the call, in order
    ops,        \* per invocation: the operations of its current fill, in order
    snap,       \* per invocation: the store when its current fill began
    hit,        \* per invocation: what the cache read of its current fill gave
    parsed,     \* per invocation: the content its current fill parsed
    staleAt,    \* per invocation: isProgrammeDataStale() when it was asked
    overlapped, \* per invocation: another invocation ran during it
    seen,       \* cycles run one after another: what the current cycle met
    pair,       \* the pairing loop on its own: lines, position, pending, output
    epi,        \* parseEpisodeNumber on its own: the episode-num list, the result
    prs,        \* the programme loop on its own: elements, position, output
    chn         \* parseChannelEntry on its own: the element, position, result

vars == <<chans, progs, cache, now, config, mrg, armed, timerSlot, calls, pc, force, content, data, merged,
          result, log, ops, snap, hit, parsed, staleAt, overlapped, seen, pair, epi, prs, chn>>

\* the state of the parsers and loops taken on their own
aux == <<pair, epi, prs, chn>>

\* everything but the bookkeeping of the invocations
shared == <<chans, progs, cache, now, config, mrg, aux, armed, timerSlot, calls>>

Procs == 1..NumCallers

Running(p) == pc[p] \notin {"idle", "done"}

\* The staleness oracle: the stored programmes no longer reach beyond now.
isProgrammeDataStale == \A i \in 1..Len(progs) : progs[i].stop_timestamp <= now

EmptySnap == [chans |-> <<>>, progs |-> <<>>]

\* a parser or loop that is not being looked at
Off == [stage |-> "off"]

\* no cycle met yet
NoCycle == [ran |-> FALSE, force |-> FALSE, result |-> "none", xmltv |-> Null,
            playlist |-> Null, chans |-> <<>>, progs |-> <<>>]
NotSeen == [before |-> EmptySnap, xmltv |-> Null, playlist |-> Null, read |-> <<>>,
            xwrote |-> FALSE, pwrote |-> FALSE, prev |-> NoCycle]

MergeIdle == [stage |-> "off", existing |-> <<>>, playlist |-> <<>>, map |-> <<>>,
              prev |-> <<>>, n |-> 0, result |-> <<>>]

Init ==
    /\ \E st \in InitStores : chans = st.chans /\ progs = st.progs
    /\ cache \in [xmltv : CachedXml \cup {Null}, playlist : CachedPlaylist \cup {Null}]
    /\ now = 0
    /\ config \in [PLAYLIST : {"", PlaylistUrl}, STREAM_BASE_URL : {"http://s/{channel}"}]
    /\ mrg = MergeIdle
    /\ seen = NotSeen
    /\ pair = Off
    /\ epi = Off
    /\ chn = Off
    /\ prs = Off
    /\ armed = FALSE
    /\ timerSlot = 0
    /\ calls = 0
    /\ pc = [p \in Procs |-> "idle"]
    /\ force = [p \in Procs |-> FALSE]
    /\ content = [p \in Procs |-> Null]
    /\ data = [p \in Procs |-> EmptyXMLTVData]
    /\ merged = [p \in Procs |-> <<>>]
    /\ result = [p \in Procs |-> "none"]
    /\ log = [p \in Procs |-> <<>>]
    /\ ops = [p \in Procs |-> <<>>]
    /\ snap = [p \in Procs |-> EmptySnap]
    /\ hit = [p \in Procs |-> Null]
    /\ parsed = [p \in Procs |-> Null]
    /\ staleAt = [p \in Procs |-> FALSE]
    /\ overlapped = [p \in Procs |-> FALSE]

\* ------------------------------------------------------------ bookkeeping
Goto(p, label) == pc' = [pc EXCEPT ![p] = label]
Logged(p, stages) == log' = [log EXCEPT ![p] = @ \o stages]
Did(p, os) == ops' = [ops EXCEPT ![p] = @ \o os]

\* A fill of invocation p begins; h is what its cache read gave, if it
\* has already read.
BeginFill(p, os, h) ==
    /\ ops' = [ops EXCEPT ![p] = os]
    /\ snap' = [snap EXCEPT ![p] = [chans |-> chans, progs |-> progs]]
    /\ hit' = [hit EXCEPT ![p] = h]
    /\ parsed' = [parsed EXCEPT ![p] = Null]

\* Invocation p begins: it and every running invocation now overlap.
Begin(p, f, label) ==
    /\ pc[p] = "idle"
    /\ calls < MaxCalls
    /\ calls' = calls + 1
    /\ Goto(p, label)
    /\ force' = [force EXCEPT ![p] = f]
    /\ overlapped' = [q \in Procs |->
                        IF q = p THEN \E r \in Procs \ {p} : Running(r)
                        ELSE overlapped[q] \/ Running(q)]
    /\ UNCHANGED <<chans, progs, cache, now, config, mrg, aux, armed, content, data, merged, result,
                   log, ops, snap, hit, parsed, staleAt>>

\* Invocation p settles: the promise resolves or rejects.
Settle(p, how) ==
    /\ Goto(p, "done")
    /\ result' = [result EXCEPT ![p] = how]

\* The settled invocation is gone; its slot is free for the next call.
Return(p) ==
    /\ pc[p] = "done"
    /\ Goto(p, "idle")
    /\ force' = [force EXCEPT ![p] = FALSE]
    /\ content' = [content EXCEPT ![p] = Null]
    /\ data' = [data EXCEPT ![p] = EmptyXMLTVData]
    /\ merged' = [merged EXCEPT ![p] = <<>>]
    /\ result' = [result EXCEPT ![p] = "none"]
    /\ log' = [log EXCEPT ![p] = <<>>]
    /\ ops' = [ops EXCEPT ![p] = <<>>]
    /\ snap' = [snap EXCEPT ![p] = EmptySnap]
    /\ hit' = [hit EXCEPT ![p] = Null]
    /\ parsed' = [parsed EXCEPT ![p] = Null]
    /\ staleAt' = [staleAt EXCEPT ![p] = FALSE]
    /\ overlapped' = [overlapped EXCEPT ![p] = FALSE]
    /\ timerSlot' = IF timerSlot = p THEN 0 ELSE timerSlot
    /\ UNCHANGED <<chans, progs, cache, now, config, mrg, aux, armed, calls>>

\* ------------------------------------------------- decisions of the code
\* (a cycle that began with the playlist fill)
FirstStepPlaylistFirst == "p_start"
\* downloadCacheAndFillDb runs fillDbFromXMLTV first (index.ts 26)
FirstStep == "x_stale"
\* then fillDbChannelsFromPlaylist (index.ts 29)
AfterXmltvFill == "p_start"
\* then clearCache (index.ts 32)
AfterPlaylistFill == "purge"

\* (a gate that lets every call through)
XmltvGateAlways(isStale, f) == TRUE
\* fillDbFromXMLTV goes on past the staleness gate (index.ts 51)
XmltvGate(isStale, f) == isStale \/ f
\* (a fetch decision that forgets force)
NeedsFetchOnMissOnly(c, f) == c = Null
\* if (!content || force) fetchWithRetry (index.ts 58, 124, 222, 278)
NeedsFetch(c, f) == c = Null \/ f
\* (a channel write without the length test)
WritesChannelsAlways(d) == TRUE
\* if (xmltvData.channels.length > 0) (index.ts 81)
WritesChannels(d) == Len(d.channels) > 0
\* if (xmltvData.programmes.length > 0) (index.ts 88)
WritesProgrammes(d) == Len(d.programmes) > 0
\* if (mergedChannels.length > 0) (index.ts 192)
WritesMerged(m) == Len(m) > 0
\* (a cycle that arms the scheduler whatever force is)
ArmsSchedulerAlways(f) == TRUE
\* if (!force) scheduleIPTVRefresh() (index.ts 35)
ArmsScheduler(f) == ~f

\* The invocations of this specification are not followed from cycle to cycle.
Untracked == UNCHANGED seen

\* ------------------------------------------------ downloadCacheAndFillDb
\* A caller invokes downloadCacheAndFillDb(f); nothing in it looks at a
\* cycle already under way.
Call(p, f) ==
    /\ Begin(p, f, FirstStep)
    /\ UNCHANGED timerSlot

\* The periodic scheduler fires its forced refresh; it lets a cycle that is
\* running finish first.
Trigger(p) ==
    /\ armed
    /\ timerSlot = 0
    /\ \A q \in Procs : ~Running(q)
    /\ Begin(p, TRUE, FirstStep)
    /\ timerSlot' = p

\* fillDbFromXMLTV: await isProgrammeDataStale() and the gate (49-54)
XStale(p) ==
    /\ pc[p] = "x_stale"
    /\ staleAt' = [staleAt EXCEPT ![p] = isProgrammeDataStale]
    /\ IF XmltvGate(isProgrammeDataStale, force[p])
       THEN /\ Goto(p, "x_cache")
            /\ BeginFill(p, <<>>, Null)
            /\ Logged(p, <<"x.begin">>)
       ELSE /\ Goto(p, AfterXmltvFill)
            /\ BeginFill(p, <<"uptodate">>, Null)
            /\ Logged(p, <<"x.begin", "x.end">>)
    /\ UNCHANGED <<shared, force, content, data, merged, result, overlapped>>

\* await getCachedFile('xmltv.xml') (57-58)
XCache(p) ==
    /\ pc[p] = "x_cache"
    /\ content' = [content EXCEPT ![p] = cache.xmltv]
    /\ hit' = [hit EXCEPT ![p] = cache.xmltv]
    /\ Did(p, <<"getCachedFile">>)
    /\ Goto(p, IF NeedsFetch(cache.xmltv, force[p]) THEN "x_fetch" ELSE "x_path")
    /\ UNCHANGED <<shared, force, data, merged, result, log, snap, parsed, staleAt,
                   overlapped>>

\* await fetchWithRetry(config.XMLTV, 'xmltv.xml'): content, or null when
\* the retries are exhausted (59-65)
XFetch(p) ==
    /\ pc[p] = "x_fetch"
    /\ \E r \in NetXml \cup {Null} :
        /\ content' = [content EXCEPT ![p] = r]
        /\ IF r = Null
           THEN /\ Goto(p, AfterXmltvFill)
                /\ Did(p, <<"fetch", "nocontent">>)
                /\ Logged(p, <<"x.end">>)
           ELSE /\ Goto(p, "x_path")
                /\ Did(p, <<"fetch">>)
                /\ UNCHANGED log
    /\ UNCHANGED <<shared, force, data, merged, result, snap, hit, parsed, staleAt,
                   overlapped>>

\* await getCachedFilePath('xmltv.xml'): a path, or null (67-71)
XPath(p) ==
    /\ pc[p] = "x_path"
    /\ \E path \in BOOLEAN :
        IF path
        THEN /\ Goto(p, "x_write")
             /\ UNCHANGED <<log, ops, content>>
        ELSE /\ Goto(p, AfterXmltvFill)
             /\ Did(p, <<"nopath">>)
             /\ Logged(p, <<"x.end">>)
             /\ content' = [content EXCEPT ![p] = Null]
    /\ UNCHANGED <<shared, force, data, merged, result, snap, hit, parsed, staleAt,
                   overlapped>>

\* await fs.writeFile(xmltvPath, xmltvContent): the file now holds the
\* content, or the write throws; nothing catches it, so fillDbFromXMLTV and
\* with it downloadCacheAndFillDb reject (73-76)
XWrite(p) ==
    /\ pc[p] = "x_write"
    /\ content' = [content EXCEPT ![p] = Null]
    /\ \E ok \in BOOLEAN :
        IF ok
        THEN /\ cache' = [cache EXCEPT !.xmltv = content[p]]
             /\ Goto(p, "x_parse")
             /\ Did(p, <<"writeFile">>)
             /\ UNCHANGED <<result, log>>
        ELSE /\ Settle(p, "rejected")
             /\ Did(p, <<"writeFile", "throw">>)
             /\ Logged(p, <<"x.throw">>)
             /\ UNCHANGED cache
    /\ UNCHANGED <<chans, progs, now, config, mrg, aux, armed, timerSlot, calls, force, data, merged, snap, hit,
                   parsed, staleAt, overlapped>>

\* await parseXMLTVFull(xmltvPath): reads what the file holds now (78-81)
XParse(p) ==
    /\ pc[p] = "x_parse"
    /\ parsed' = [parsed EXCEPT ![p] = cache.xmltv]
    /\ LET d == parseXMLTVFull(XmlDoc(cache.xmltv), config.STREAM_BASE_URL, now) IN
        IF WritesChannels(d) \/ WritesProgrammes(d)
        THEN /\ data' = [data EXCEPT ![p] = d]
             /\ Goto(p, IF WritesChannels(d) THEN "x_clearCh" ELSE "x_clearPr")
             /\ Did(p, <<"parse">>)
             /\ UNCHANGED log
        ELSE /\ UNCHANGED data
             /\ Goto(p, AfterXmltvFill)
             /\ Did(p, <<"parse", "empty">>)
             /\ Logged(p, <<"x.end">>)
    /\ UNCHANGED <<shared, force, content, merged, result, snap, hit, staleAt, overlapped>>

\* (a fill that adds the parsed channels without clearing first)
XClearChannelsSkipped(p) ==
    /\ pc[p] = "x_clearCh"
    /\ Goto(p, "x_addCh")
    /\ Did(p, <<"clearChannels">>)
    /\ UNCHANGED <<chans, progs, cache, now, config, mrg, aux, armed, timerSlot, calls, force, content, data,
                   merged, result, log, snap, hit, parsed, staleAt, overlapped>>

\* await clearChannels() (83)
XClearChannels(p) ==
    /\ pc[p] = "x_clearCh"
    /\ chans' = <<>>
    /\ Goto(p, "x_addCh")
    /\ Did(p, <<"clearChannels">>)
    /\ UNCHANGED <<progs, cache, now, config, mrg, aux, armed, timerSlot, calls, force, content, data, merged, result,
                   log, snap, hit, parsed, staleAt, overlapped>>

\* await addChannels(xmltvData.channels) (84-88)
XAddChannels(p) ==
    /\ pc[p] = "x_addCh"
    /\ chans' = chans \o data[p].channels
    /\ Did(p, <<"addChannels">>)
    /\ IF WritesProgrammes(data[p])
       THEN /\ Goto(p, "x_clearPr")
            /\ UNCHANGED <<data, log>>
       ELSE /\ Goto(p, AfterXmltvFill)
            /\ Logged(p, <<"x.end">>)
            /\ data' = [data EXCEPT ![p] = EmptyXMLTVData]
    /\ UNCHANGED <<progs, cache, now, config, mrg, aux, armed, timerSlot, calls, force, content, merged, result,
                   snap, hit, parsed, staleAt, overlapped>>

\* await clearProgrammes() (89)
XClearProgrammes(p) ==
    /\ pc[p] = "x_clearPr"
    /\ progs' = <<>>
    /\ Goto(p, "x_addPr")
    /\ Did(p, <<"clearProgrammes">>)
    /\ UNCHANGED <<chans, cache, now, config, mrg, aux, armed, timerSlot, calls, force, content, data, merged, result,
                   log, snap, hit, parsed, staleAt, overlapped>>

\* await addProgrammes(xmltvData.programmes), then the lists are emptied
\* and the fill returns (90-96)
XAddProgrammes(p) ==
    /\ pc[p] = "x_addPr"
    /\ progs' = progs \o data[p].programmes
    /\ data' = [data EXCEPT ![p] = EmptyXMLTVData]
    /\ Goto(p, AfterXmltvFill)
    /\ Did(p, <<"addProgrammes">>)
    /\ Logged(p, <<"x.end">>)
    /\ UNCHANGED <<chans, cache, now, config, mrg, aux, armed, timerSlot, calls, force, content, merged, result,
                   snap, hit, parsed, staleAt, overlapped>>

\* fillDbChannelsFromPlaylist: the configuration gate and
\* await getCachedFile('playlist.m3u') (109-124)
PStart(p) ==
    /\ pc[p] = "p_start"
    /\ IF config.PLAYLIST = ""
       THEN /\ Goto(p, AfterPlaylistFill)
            /\ BeginFill(p, <<"noplaylist">>, Null)
            /\ Logged(p, <<"p.begin", "p.end">>)
            /\ UNCHANGED content
       ELSE /\ content' = [content EXCEPT ![p] = cache.playlist]
            /\ BeginFill(p, <<"getCachedFile">>, cache.playlist)
            /\ Logged(p, <<"p.begin">>)
            /\ Goto(p, IF NeedsFetch(cache.playlist, force[p]) THEN "p_fetch" ELSE "p_get")
    /\ UNCHANGED <<shared, force, data, merged, result, staleAt, overlapped>>

\* await fetchWithRetry(config.PLAYLIST, 'playlist.m3u') (126-142)
PFetch(p) ==
    /\ pc[p] = "p_fetch"
    /\ \E r \in NetPlaylist(config.PLAYLIST) \cup {Null} :
        /\ content' = [content EXCEPT ![p] = r]
        /\ IF r = Null
           THEN /\ Goto(p, AfterPlaylistFill)
                /\ Did(p, <<"fetch", "nocontent">>)
                /\ Logged(p, <<"p.end">>)
           ELSE /\ Goto(p, "p_get")
                /\ Did(p, <<"fetch">>)
                /\ UNCHANGED log
    /\ UNCHANGED <<shared, force, data, merged, result, snap, hit, parsed, staleAt,
                   overlapped>>

\* await getChannelEntries(), then pairing loop and merge (145-192)
PMerge(p) ==
    /\ pc[p] = "p_get"
    /\ parsed' = [parsed EXCEPT ![p] = content[p]]
    /\ content' = [content EXCEPT ![p] = Null]
    /\ LET m == MergeChannels(chans, ParsePlaylist(PlaylistLines(content[p]), now)) IN
        IF WritesMerged(m)
        THEN /\ merged' = [merged EXCEPT ![p] = m]
             /\ Goto(p, "p_clear")
             /\ Did(p, <<"getChannelEntries", "parse">>)
             /\ UNCHANGED log
        ELSE /\ UNCHANGED merged
             /\ Goto(p, AfterPlaylistFill)
             /\ Did(p, <<"getChannelEntries", "parse", "empty">>)
             /\ Logged(p, <<"p.end">>)
    /\ UNCHANGED <<shared, force, data, result, snap, hit, staleAt, overlapped>>

\* await clearChannels() (193)
PClearChannels(p) ==
    /\ pc[p] = "p_clear"
    /\ chans' = <<>>
    /\ Goto(p, "p_add")
    /\ Did(p, <<"clearChannels">>)
    /\ UNCHANGED <<progs, cache, now, config, mrg, aux, armed, timerSlot, calls, force, content, data, merged, result,
                   log, snap, hit, parsed, staleAt, overlapped>>

\* await addChannels(mergedChannels) (194-196)
PAddChannels(p) ==
    /\ pc[p] = "p_add"
    /\ chans' = chans \o merged[p]
    /\ merged' = [merged EXCEPT ![p] = <<>>]
    /\ Goto(p, AfterPlaylistFill)
    /\ Did(p, <<"addChannels">>)
    /\ Logged(p, <<"p.end">>)
    /\ UNCHANGED <<progs, cache, now, config, mrg, aux, armed, timerSlot, calls, force, content, data, result, snap,
                   hit, parsed, staleAt, overlapped>>

\* await clearCache() (32)
Purge(p) ==
    /\ pc[p] = "purge"
    /\ cache' = [xmltv |-> Null, playlist |-> Null]
    /\ Goto(p, "finish")
    /\ Logged(p, <<"clearCache">>)
    /\ BeginFill(p, <<>>, Null)
    /\ UNCHANGED <<chans, progs, now, config, mrg, aux, armed, timerSlot, calls, force, content, data, merged, result,
                   staleAt, overlapped>>

\* if (!force) scheduleIPTVRefresh(); the call returns (35-38)
Finish(p) ==
    /\ pc[p] = "finish"
    /\ Settle(p, "resolved")
    /\ IF ArmsScheduler(force[p])
       THEN /\ armed' = TRUE
            /\ Logged(p, <<"schedule">>)
       ELSE UNCHANGED <<armed, log>>
    /\ UNCHANGED <<chans, progs, cache, now, config, mrg, aux, timerSlot, calls, force, content, data, merged, ops,
                   snap, hit, parsed, staleAt, overlapped>>

\* Time passes.
Tick ==
    /\ now < MaxNow
    /\ now' = now + 1
    /\ UNCHANGED <<chans, progs, cache, config, mrg, aux, armed, timerSlot, calls, pc, force, content, data, merged,
                   result, log, ops, snap, hit, parsed, staleAt, overlapped>>

Next ==
    \/ \E p \in Procs, f \in BOOLEAN : Call(p, f) /\ Untracked
    \/ \E p \in Procs : Trigger(p) /\ Untracked
    \/ \E p \in Procs : XStale(p) /\ Untracked
    \/ \E p \in Procs : XCache(p) /\ Untracked
    \/ \E p \in Procs : XFetch(p) /\ Untracked
    \/ \E p \in Procs : XPath(p) /\ Untracked
    \/ \E p \in Procs : XWrite(p) /\ Untracked
    \/ \E p \in Procs : XParse(p) /\ Untracked
    \/ \E p \in Procs : XClearChannels(p) /\ Untracked
    \/ \E p \in Procs : XAddChannels(p) /\ Untracked
    \/ \E p \in Procs : XClearProgrammes(p) /\ Untracked
    \/ \E p \in Procs : XAddProgrammes(p) /\ Untracked
    \/ \E p \in Procs : PStart(p) /\ Untracked
    \/ \E p \in Procs : PFetch(p) /\ Untracked
    \/ \E p \in Procs : PMerge(p) /\ Untracked
    \/ \E p \in Procs : PClearChannels(p) /\ Untracked
    \/ \E p \in Procs : PAddChannels(p) /\ Untracked
    \/ \E p \in Procs : Purge(p) /\ Untracked
    \/ \E p \in Procs : Finish(p) /\ Untracked
    \/ \E p \in Procs : Return(p) /\ Untracked
    \/ Tick /\ Untracked

Spec == Init /\ [][Next]_vars

\* ------------------------------------------- fillDbChannels (206-259)
\* A caller invokes fillDbChannels(f).
CallChannels(p, f) ==
    /\ Begin(p, f, "c_clear")
    /\ UNCHANGED timerSlot

\* await clearChannels() (209)
CClear(p) ==
    /\ pc[p] = "c_clear"
    /\ BeginFill(p, <<"clearChannels">>, Null)
    /\ Logged(p, <<"c.begin">>)
    /\ chans' = <<>>
    /\ Goto(p, "c_cache")
    /\ UNCHANGED <<progs, cache, now, config, mrg, aux, armed, timerSlot, calls, force, content, data, merged,
                   result, staleAt, overlapped>>

\* await getCachedFile('playlist.m3u') (212-222)
CCache(p) ==
    /\ pc[p] = "c_cache"
    /\ content' = [content EXCEPT ![p] = cache.playlist]
    /\ hit' = [hit EXCEPT ![p] = cache.playlist]
    /\ Did(p, <<"getCachedFile">>)
    /\ Goto(p, IF NeedsFetch(cache.playlist, force[p]) THEN "c_fetch" ELSE "c_add")
    /\ UNCHANGED <<shared, force, data, merged, result, log, snap, parsed, staleAt,
                   overlapped>>

\* await fetchWithRetry(config.PLAYLIST, 'playlist.m3u'); without content
\* the call logs the failure and returns (224-236, 256-258)
CFetch(p) ==
    /\ pc[p] = "c_fetch"
    /\ \E r \in NetPlaylist(config.PLAYLIST) \cup {Null} :
        /\ content' = [content EXCEPT ![p] = r]
        /\ IF r = Null
           THEN /\ Settle(p, "resolved")
                /\ Did(p, <<"fetch", "nocontent">>)
           ELSE /\ Goto(p, "c_add")
                /\ Did(p, <<"fetch">>)
                /\ UNCHANGED result
    /\ UNCHANGED <<shared, force, data, merged, log, snap, hit, parsed, staleAt,
                   overlapped>>

\* the pairing loop and await addChannels(channels) (236-255)
CAdd(p) ==
    /\ pc[p] = "c_add"
    /\ chans' = chans \o ParsePlaylist(PlaylistLines(content[p]), now)
    /\ parsed' = [parsed EXCEPT ![p] = content[p]]
    /\ content' = [content EXCEPT ![p] = Null]
    /\ Did(p, <<"parse", "addChannels">>)
    /\ Settle(p, "resolved")
    /\ UNCHANGED <<progs, cache, now, config, mrg, aux, armed, timerSlot, calls, force, data, merged, log,
                   snap, hit, staleAt, overlapped>>

\* ----------------------------------------- fillDbProgrammes (268-300)
\* A caller invokes fillDbProgrammes(f).
CallProgrammes(p, f) ==
    /\ Begin(p, f, "g_stale")
    /\ UNCHANGED timerSlot

\* await isProgrammeDataStale() and the gate (271-273, 297-299)
GStale(p) ==
    /\ pc[p] = "g_stale"
    /\ staleAt' = [staleAt EXCEPT ![p] = isProgrammeDataStale]
    /\ Logged(p, <<"g.begin">>)
    /\ IF XmltvGate(isProgrammeDataStale, force[p])
       THEN /\ Goto(p, "g_clear")
            /\ BeginFill(p, <<>>, Null)
            /\ UNCHANGED result
       ELSE /\ Settle(p, "resolved")
            /\ BeginFill(p, <<"uptodate">>, Null)
    /\ UNCHANGED <<shared, force, content, data, merged, overlapped>>

\* await clearProgrammes() (274)
GClear(p) ==
    /\ pc[p] = "g_clear"
    /\ progs' = <<>>
    /\ Did(p, <<"clearProgrammes">>)
    /\ Goto(p, "g_cache")
    /\ UNCHANGED <<chans, cache, now, config, mrg, aux, armed, timerSlot, calls, force, content, data, merged,
                   result, log, snap, hit, parsed, staleAt, overlapped>>

\* await getCachedFile('xmltv.xml') (277-278)
GCache(p) ==
    /\ pc[p] = "g_cache"
    /\ content' = [content EXCEPT ![p] = cache.xmltv]
    /\ hit' = [hit EXCEPT ![p] = cache.xmltv]
    /\ Did(p, <<"getCachedFile">>)
    /\ Goto(p, IF NeedsFetch(cache.xmltv, force[p]) THEN "g_fetch" ELSE "g_path")
    /\ UNCHANGED <<shared, force, data, merged, result, log, snap, parsed, staleAt,
                   overlapped>>

\* await fetchWithRetry(config.XMLTV, 'xmltv.xml') (279-282, 294-296)
GFetch(p) ==
    /\ pc[p] = "g_fetch"
    /\ \E r \in NetXml \cup {Null} :
        /\ content' = [content EXCEPT ![p] = r]
        /\ IF r = Null
           THEN /\ Settle(p, "resolved")
                /\ Did(p, <<"fetch", "nocontent">>)
           ELSE /\ Goto(p, "g_path")
                /\ Did(p, <<"fetch">>)
                /\ UNCHANGED result
    /\ UNCHANGED <<shared, force, data, merged, log, snap, hit, parsed, staleAt,
                   overlapped>>

\* await getCachedFilePath('xmltv.xml') (284-285, 291-293)
GPath(p) ==
    /\ pc[p] = "g_path"
    /\ \E path \in BOOLEAN :
        IF path
        THEN /\ Goto(p, "g_write")
             /\ UNCHANGED <<result, ops, content>>
        ELSE /\ Settle(p, "resolved")
             /\ Did(p, <<"nopath">>)
             /\ content' = [content EXCEPT ![p] = Null]
    /\ UNCHANGED <<shared, force, data, merged, log, snap, hit, parsed, staleAt,
                   overlapped>>

\* await fs.writeFile(xmltvPath, xmltvContent) (286-288)
GWrite(p) ==
    /\ pc[p] = "g_write"
    /\ content' = [content EXCEPT ![p] = Null]
    /\ \E ok \in BOOLEAN :
        IF ok
        THEN /\ cache' = [cache EXCEPT !.xmltv = content[p]]
             /\ Goto(p, "g_parse")
             /\ Did(p, <<"writeFile">>)
             /\ UNCHANGED result
        ELSE /\ Settle(p, "rejected")
             /\ Did(p, <<"writeFile", "throw">>)
             /\ UNCHANGED cache
    /\ UNCHANGED <<chans, progs, now, config, mrg, aux, armed, timerSlot, calls, force, data, merged, log,
                   snap, hit, parsed, staleAt, overlapped>>

\* await parseXMLTV(xmltvPath) (289)
GParse(p) ==
    /\ pc[p] = "g_parse"
    /\ parsed' = [parsed EXCEPT ![p] = cache.xmltv]
    /\ data' = [data EXCEPT ![p] = [channels |-> <<>>,
                                    programmes |-> parseXMLTV(XmlDoc(cache.xmltv), now)]]
    /\ Did(p, <<"parse">>)
    /\ Goto(p, "g_add")
    /\ UNCHANGED <<shared, force, content, merged, result, log, snap, hit, staleAt,
                   overlapped>>

\* await addProgrammes(programmes) (290)
GAdd(p) ==
    /\ pc[p] = "g_add"
    /\ progs' = progs \o data[p].programmes
    /\ data' = [data EXCEPT ![p] = EmptyXMLTVData]
    /\ Did(p, <<"addProgrammes">>)
    /\ Settle(p, "resolved")
    /\ UNCHANGED <<chans, cache, now, config, mrg, aux, armed, timerSlot, calls, force, content, merged, log,
                   snap, hit, parsed, staleAt, overlapped>>

\* The standalone fills, called by the host on their own.
FillNext ==
    \/ \E p \in Procs, f \in BOOLEAN : CallChannels(p, f) /\ Untracked
    \/ \E p \in Procs : CClear(p) /\ Untracked
    \/ \E p \in Procs : CCache(p) /\ Untracked
    \/ \E p \in Procs : CFetch(p) /\ Untracked
    \/ \E p \in Procs : CAdd(p) /\ Untracked
    \/ \E p \in Procs, f \in BOOLEAN : CallProgrammes(p, f) /\ Untracked
    \/ \E p \in Procs : GStale(p) /\ Untracked
    \/ \E p \in Procs : GClear(p) /\ Untracked
    \/ \E p \in Procs : GCache(p) /\ Untracked
    \/ \E p \in Procs : GFetch(p) /\ Untracked
    \/ \E p \in Procs : GPath(p) /\ Untracked
    \/ \E p \in Procs : GWrite(p) /\ Untracked
    \/ \E p \in Procs : GParse(p) /\ Untracked
    \/ \E p \in Procs : GAdd(p) /\ Untracked
    \/ \E p \in Procs : Return(p) /\ Untracked
    \/ Tick /\ Untracked

FillSpec == Init /\ [][FillNext]_vars

\* ===================================================== properties: cycle
Has(seq, x) == \E i \in 1..Len(seq) : seq[i] = x
Count(seq, x) == Cardinality({i \in 1..Len(seq) : seq[i] = x})
IsPrefix(a, b) == Len(a) <= Len(b) /\ \A i \in 1..Len(a) : a[i] = b[i]
LastOf(seq) == IF seq = <<>> THEN "" ELSE seq[Len(seq)]

StoreOps == {"clearChannels", "addChannels", "clearProgrammes", "addProgrammes"}
NoStoreOps(os) == \A i \in 1..Len(os) : os[i] \notin StoreOps

\* The stages of a cycle that runs to its end, in the order of the source.
CycleOrder == <<"x.begin", "x.end", "p.begin", "p.end", "clearCache", "schedule">>

\* The XMLTV fill / the playlist fill of p has just returned.
XFillEnded(p) == LastOf(log[p]) = "x.end"
PFillEnded(p) == LastOf(log[p]) = "p.end"
\* p is inside its XMLTV fill / its playlist fill, or just out of it.
InXFill(p) == LastOf(log[p]) \in {"x.begin", "x.end"}
InPFill(p) == LastOf(log[p]) \in {"p.begin", "p.end"}

\* The failure modes of a fill: retrieval gave null, no cache path, the
\* document did not parse and the parser gave two empty lists.
FetchFailed(p) == Has(ops[p], "nocontent")
PathFailed(p) == Has(ops[p], "nopath")
DocumentFailed(p) ==
    /\ Has(ops[p], "parse")
    /\ ~(XmlDoc(parsed[p]).readable /\ XmlDoc(parsed[p]).wellformed)

StoreAsBefore(p) == chans = snap[p].chans /\ progs = snap[p].progs

\* C1: a fill of a cycle that fails (retrieval null, no cache path, whole
\* document unparsable) issues no clear and no add on the store, and the
\* channel and programme collections after the fill are what they were when
\* it began (no other invocation being at work meanwhile).
C1_FailedFillLeavesStore ==
    \A p \in Procs :
        /\ (XFillEnded(p) /\ (FetchFailed(p) \/ PathFailed(p) \/ DocumentFailed(p)))
              => /\ NoStoreOps(ops[p])
                 /\ ~overlapped[p] => StoreAsBefore(p)
        /\ (PFillEnded(p) /\ FetchFailed(p))
              => /\ NoStoreOps(ops[p])
                 /\ ~overlapped[p] => StoreAsBefore(p)

\* C1 witness: an XMLTV fill whose document did not parse has returned over
\* a store that holds channels and programmes.
C1_Witness ==
    \E p \in Procs :
        /\ XFillEnded(p) /\ DocumentFailed(p) /\ ~overlapped[p]
        /\ chans # <<>> /\ progs # <<>>

\* C3: a cycle in which the XMLTV fill fails unrecoverably still attempts
\* the playlist fill and does not reject: every settled cycle has resolved
\* and has entered its playlist fill.
C3_XmltvFailureAbortsOnlyXmltvFill ==
    \A p \in Procs :
        pc[p] = "done" => (result[p] = "resolved" /\ Has(log[p], "p.begin"))

\* C4: no two cycles are under way at the same time.
C4_NoOverlappingCycles ==
    \A p, q \in Procs : p # q => ~(Running(p) /\ Running(q))

\* C5: the stages of a cycle come in the order XMLTV fill, playlist fill,
\* cache purge: while the XMLTV fill has operations to issue the playlist
\* fill has not begun, the playlist fill issues its operations only after
\* the XMLTV fill has returned, and clearCache comes after the playlist
\* fill has returned.
XmltvPcs == {"x_cache", "x_fetch", "x_path", "x_write", "x_parse", "x_clearCh", "x_addCh",
             "x_clearPr", "x_addPr"}
PlaylistPcs == {"p_fetch", "p_get", "p_clear", "p_add"}

C5_StagesInOrder ==
    \A p \in Procs :
        /\ IsPrefix(log[p], CycleOrder) \/ log[p] = <<"x.begin", "x.throw">>
        /\ pc[p] \in XmltvPcs => log[p] = <<"x.begin">>
        /\ pc[p] \in PlaylistPcs => log[p] = <<"x.begin", "x.end", "p.begin">>
        /\ Has(log[p], "clearCache") => Has(log[p], "p.end")

\* C5 witness: a cycle whose XMLTV fill and playlist fill both wrote to the
\* store has purged the cache.
C5_Witness ==
    \E p \in Procs :
        /\ pc[p] = "finish" /\ Has(log[p], "clearCache")
        /\ chans # <<>> /\ progs # <<>> /\ config.PLAYLIST # ""

\* C6: scheduleIPTVRefresh is called by a cycle only when force is false,
\* at most once, and after both fills and the cache purge of that cycle.
C6_ArmedOnlyUnforcedAtEnd ==
    \A p \in Procs :
        /\ Has(log[p], "schedule") => (~force[p] /\ log[p] = CycleOrder)
        /\ Count(log[p], "schedule") <= 1
        /\ (pc[p] = "done" /\ force[p]) => ~Has(log[p], "schedule")

\* C6 witness: an unforced cycle has armed the scheduler.
C6_Witness ==
    \E p \in Procs : pc[p] = "done" /\ ~force[p] /\ Has(log[p], "schedule") /\ armed

\* C7: the XMLTV fill works exactly when the data is stale or force is set:
\* fresh and unforced it reads no cache, retrieves nothing and leaves the
\* store alone, and the playlist fill comes next and reads its cache when a
\* playlist is configured; stale or forced it goes on to read the cache.
C7_XmltvGatedByStaleness ==
    \A p \in Procs :
        /\ (InXFill(p) /\ ~staleAt[p] /\ ~force[p])
              => /\ ops[p] = <<"uptodate">>
                 /\ XFillEnded(p) /\ pc[p] = "p_start"
                 /\ ~overlapped[p] => StoreAsBefore(p)
        /\ (InPFill(p) /\ ~staleAt[p] /\ ~force[p] /\ config.PLAYLIST # "")
              => Has(ops[p], "getCachedFile")
        /\ (XFillEnded(p) /\ (staleAt[p] \/ force[p])) => Has(ops[p], "getCachedFile")

\* C7 witness: a fresh, unforced XMLTV fill has returned and the playlist
\* fill of the same cycle has read its cache.
C7_Witness ==
    \E p \in Procs :
        /\ InPFill(p) /\ ~staleAt[p] /\ ~force[p] /\ config.PLAYLIST # ""
        /\ Has(ops[p], "getCachedFile") /\ progs # <<>>

\* C8: in both fills, unforced with content in the cache under the logical
\* name no retrieval is issued and the cached content is the one parsed
\* (the XMLTV fill parses the file it wrote, so this holds of it when no
\* other invocation wrote the file meanwhile); forced, a retrieval is
\* issued whatever the cache holds.
C8_CacheHitSkipsFetch ==
    \A p \in Procs :
        (InXFill(p) \/ InPFill(p)) =>
            /\ (~force[p] /\ hit[p] # Null)
                  => /\ ~Has(ops[p], "fetch")
                     /\ (Has(ops[p], "parse") /\ (InPFill(p) \/ ~overlapped[p]))
                            => parsed[p] = hit[p]
            /\ (force[p] /\ Has(ops[p], "getCachedFile") /\ pc[p] \notin {"x_fetch", "p_fetch"})
                  => Has(ops[p], "fetch")

\* C8 witness: a forced fill has retrieved although the cache held content,
\* and an unforced fill has parsed the cached content.
C8_Witness ==
    \E p, q \in Procs :
        /\ force[p] /\ hit[p] # Null /\ Has(ops[p], "fetch")
        /\ ~force[q] /\ hit[q] # Null /\ Has(ops[q], "parse") /\ parsed[q] = hit[q]

\* ================================================= properties: stand-alone
\* C2: a stand-alone fill that obtains no content (cache miss and retrieval
\* null, or no cache path) leaves its collection as it was before the call.
C2_StandaloneFailureLeavesStore ==
    \A p \in Procs :
        (pc[p] = "done" /\ ~overlapped[p] /\ (FetchFailed(p) \/ PathFailed(p)))
            => /\ Has(log[p], "c.begin") => chans = snap[p].chans
               /\ Has(log[p], "g.begin") => progs = snap[p].progs

\* ================================================ the playlist merge alone
\* The merge of fillDbChannelsFromPlaylist (index.ts 145-191) over any
\* stored channels and any playlist channels, one loop iteration a step.
BoundedSeq(S, n) == UNION {[1..k -> S] : k \in 0..n}

\* Channels getChannelEntries() can return: with and without tvg_id, with
\* and without url, group and country.
MergeExisting ==
    {Channel(5, id, "Old", "lo", f.group, f.url, f.country, 0) :
        id \in {"", "a"},
        f \in {[url |-> "", group |-> "", country |-> ""],
               [url |-> "xu", group |-> "xg", country |-> "xc"]}}

\* Channels the pairing loop can emit: tvg_id and tvg_name present or not
\* (a tvg_name can be the tvg_id of another channel), url always set.
MergePlaylist ==
    {Channel(0, id, name, "pl", f.group, "pu", f.country, 1) :
        id \in {"", "a", "b"}, name \in {"", "a"},
        f \in {[group |-> "", country |-> ""], [group |-> "pg", country |-> ""],
               [group |-> "", country |-> "pc"]}}

MergeInit ==
    /\ chans = <<>>
    /\ progs = <<>>
    /\ cache = [xmltv |-> Null, playlist |-> Null]
    /\ now = 0
    /\ config = [PLAYLIST |-> PlaylistUrl, STREAM_BASE_URL |-> ""]
    /\ armed = FALSE
    /\ timerSlot = 0
    /\ calls = 0
    /\ pc = [p \in Procs |-> "idle"]
    /\ force = [p \in Procs |-> FALSE]
    /\ content = [p \in Procs |-> Null]
    /\ data = [p \in Procs |-> EmptyXMLTVData]
    /\ merged = [p \in Procs |-> <<>>]
    /\ result = [p \in Procs |-> "none"]
    /\ log = [p \in Procs |-> <<>>]
    /\ ops = [p \in Procs |-> <<>>]
    /\ snap = [p \in Procs |-> EmptySnap]
    /\ hit = [p \in Procs |-> Null]
    /\ parsed = [p \in Procs |-> Null]
    /\ staleAt = [p \in Procs |-> FALSE]
    /\ overlapped = [p \in Procs |-> FALSE]
    /\ seen = NotSeen
    /\ pair = Off
    /\ epi = Off
    /\ chn = Off
    /\ prs = Off
    /\ \E ex \in BoundedSeq(MergeExisting, MaxExisting),
          pl \in BoundedSeq(MergePlaylist, MaxPlaylist) :
            mrg = [MergeIdle EXCEPT !.stage = "index", !.existing = ex, !.playlist = pl]

notMrg == <<chans, progs, cache, now, config, aux, seen, armed, timerSlot, calls, pc, force, content,
            data, merged, result, log, ops, snap, hit, parsed, staleAt, overlapped>>

\* Index existing channels by tvg_id (145-153)
MergeIndex ==
    /\ mrg.stage = "index"
    /\ mrg' = [mrg EXCEPT !.stage = "loop", !.map = IndexExisting(mrg.existing, <<>>),
                          !.prev = IndexExisting(mrg.existing, <<>>)]
    /\ UNCHANGED notMrg

\* One iteration of the merge loop (177-188)
MergeStep ==
    /\ mrg.stage = "loop"
    /\ mrg.n < Len(mrg.playlist)
    /\ mrg' = [mrg EXCEPT !.n = @ + 1, !.prev = mrg.map,
                          !.map = MergeOne(mrg.map, mrg.playlist[mrg.n + 1], mrg.n)]
    /\ UNCHANGED notMrg

\* Array.from(channelMap.values()) (191)
MergeValues ==
    /\ mrg.stage = "loop"
    /\ mrg.n = Len(mrg.playlist)
    /\ mrg' = [mrg EXCEPT !.stage = "done", !.result = MapValues(mrg.map)]
    /\ UNCHANGED notMrg

MergeNext == MergeIndex \/ MergeStep \/ MergeValues

MergeSpec == MergeInit /\ [][MergeNext]_vars

\* The playlist channel the last iteration merged, and its 0-based position.
Stepped == mrg.stage \in {"loop", "done"} /\ mrg.n > 0
LastPl == mrg.playlist[mrg.n]
LastPos == mrg.n - 1

\* The stored channels that carry the tvg_id of the playlist channel.
SameId(plCh) ==
    {i \in 1..Len(mrg.existing) :
        plCh.tvg_id # "" /\ mrg.existing[i].tvg_id = plCh.tvg_id}

\* The key the source files an unmatched playlist channel under.
KeyOf(plCh, i) ==
    IF plCh.tvg_id # "" THEN plCh.tvg_id
    ELSE IF plCh.tvg_name # "" THEN plCh.tvg_name
    ELSE SyntheticKey(i)

\* Every entry the map had before the iteration is still there, unchanged.
PrevKept == /\ Len(mrg.map) >= Len(mrg.prev)
            /\ \A i \in 1..Len(mrg.prev) : mrg.map[i] = mrg.prev[i]

\* C9: once a playlist record whose tvg_id is that of a stored channel has
\* been merged, the map holds a channel with that tvg_id whose url is the
\* playlist url, whose group_title and country are the playlist values
\* when these are non-empty and else what the entry had, and whose
\* tvg_name, tvg_logo and xui_id are those of the stored channel.
C9_MatchedRecordUpdatesUrl ==
    (Stepped /\ SameId(LastPl) # {}) =>
        \E i \in 1..Len(mrg.map) :
            LET m == mrg.map[i].val IN
            /\ i <= Len(mrg.prev)
            /\ m.tvg_id = LastPl.tvg_id
            /\ m.url = LastPl.url
            /\ m.group_title = IF LastPl.group_title # "" THEN LastPl.group_title
                               ELSE mrg.prev[i].val.group_title
            /\ m.country = IF LastPl.country # "" THEN LastPl.country
                           ELSE mrg.prev[i].val.country
            /\ \E j \in SameId(LastPl) :
                /\ m.tvg_name = mrg.existing[j].tvg_name
                /\ m.tvg_logo = mrg.existing[j].tvg_logo
                /\ m.xui_id = mrg.existing[j].xui_id

First == CHOOSE p \in Procs : \A q \in Procs : p <= q

\* a second stored channel under the tvg_id of OldChannel
OldTwin == Channel(0, "a", "Twin", "lt", "", "http://old/t", "", 0)

CycleStores == InitStores \cup {[chans |-> <<OldChannel, OldTwin, OldNoId>>, progs |-> <<>>]}

CycleInit ==
    /\ \E st \in CycleStores : chans = st.chans /\ progs = st.progs
    /\ cache \in [xmltv : CachedXml \cup {Null}, playlist : CachedPlaylist \cup {Null}]
    /\ now = 0
    /\ config \in [PLAYLIST : {"", PlaylistUrl, OtherPlaylistUrl},
                  STREAM_BASE_URL : {"http://s/{channel}"}]
    /\ mrg = MergeIdle
    /\ seen = NotSeen
    /\ pair = Off
    /\ epi = Off
    /\ chn = Off
    /\ prs = Off
    /\ armed = FALSE
    /\ timerSlot = 0
    /\ calls = 0
    /\ pc = [p \in Procs |-> "idle"]
    /\ force = [p \in Procs |-> FALSE]
    /\ content = [p \in Procs |-> Null]
    /\ data = [p \in Procs |-> EmptyXMLTVData]
    /\ merged = [p \in Procs |-> <<>>]
    /\ result = [p \in Procs |-> "none"]
    /\ log = [p \in Procs |-> <<>>]
    /\ ops = [p \in Procs |-> <<>>]
    /\ snap = [p \in Procs |-> EmptySnap]
    /\ hit = [p \in Procs |-> Null]
    /\ parsed = [p \in Procs |-> Null]
    /\ staleAt = [p \in Procs |-> FALSE]
    /\ overlapped = [p \in Procs |-> FALSE]

\* What the step of invocation p adds to the record of its cycle: the store
\* it started from, the documents it parsed, the channels its merge read,
\* whether its fills replaced the channel collection, and, once it has
\* returned, how it ended.
Track(p) ==
    seen' =
        IF pc[p] = "idle" /\ pc'[p] # "idle"
        THEN [NotSeen EXCEPT !.before = [chans |-> chans, progs |-> progs], !.prev = seen.prev]
        ELSE IF pc[p] \in {"x_parse", "g_parse"} THEN [seen EXCEPT !.xmltv = cache.xmltv]
        ELSE IF pc[p] = "x_clearCh" THEN [seen EXCEPT !.xwrote = TRUE]
        ELSE IF pc[p] = "p_get" THEN [seen EXCEPT !.playlist = content[p], !.read = chans]
        ELSE IF pc[p] = "p_clear" THEN [seen EXCEPT !.pwrote = TRUE]
        ELSE IF pc[p] = "done" /\ pc'[p] = "idle"
        THEN [NotSeen EXCEPT !.prev = [ran |-> TRUE, force |-> force[p], result |-> result[p],
                                       xmltv |-> seen.xmltv, playlist |-> seen.playlist,
                                       chans |-> chans, progs |-> progs]]
        ELSE seen

CycleNext ==
    \/ \E f \in BOOLEAN : Call(First, f) /\ Track(First)
    \/ Trigger(First) /\ Track(First)
    \/ XStale(First) /\ Track(First)
    \/ XCache(First) /\ Track(First)
    \/ XFetch(First) /\ Track(First)
    \/ XPath(First) /\ Track(First)
    \/ XWrite(First) /\ Track(First)
    \/ XParse(First) /\ Track(First)
    \/ XClearChannels(First) /\ Track(First)
    \/ XAddChannels(First) /\ Track(First)
    \/ XClearProgrammes(First) /\ Track(First)
    \/ XAddProgrammes(First) /\ Track(First)
    \/ PStart(First) /\ Track(First)
    \/ PFetch(First) /\ Track(First)
    \/ PMerge(First) /\ Track(First)
    \/ PClearChannels(First) /\ Track(First)
    \/ PAddChannels(First) /\ Track(First)
    \/ Purge(First) /\ Track(First)
    \/ Finish(First) /\ Track(First)
    \/ Return(First) /\ Track(First)
    \/ Tick /\ Track(First)

CycleSpec == CycleInit /\ [][CycleNext]_vars

\* The cycle of the caller has settled (resolved or rejected).
CycleSettled == pc[First] = "done"

\* The XMLTV feed parsed in this cycle carries the channel: the same tvg_id,
\* and for a channel without tvg_id the same tvg_name.
RefByXmltv(ch) ==
    /\ seen.xmltv # Null
    /\ LET cs == parseXMLTVFull(XmlDoc(seen.xmltv), "", 0).channels IN
        \E i \in 1..Len(cs) :
            /\ cs[i].tvg_id = ch.tvg_id
            /\ ch.tvg_id = "" => cs[i].tvg_name = ch.tvg_name

\* The playlist parsed in this cycle carries the channel: a record filed
\* under the channel's tvg_id, and for a channel without tvg_id a record
\* without tvg_id and of the same tvg_name.
RefByPlaylist(ch) ==
    /\ seen.playlist # Null
    /\ LET pl == ParsePlaylist(PlaylistLines(seen.playlist), 0) IN
        \E i \in 1..Len(pl) :
            IF ch.tvg_id # "" THEN PlaylistKey(pl[i], i - 1) = ch.tvg_id
            ELSE pl[i].tvg_id = "" /\ pl[i].tvg_name = ch.tvg_name

\* The channels stored before the cycle that neither source referenced.
Unreferenced ==
    {i \in 1..Len(seen.before.chans) :
        ~RefByXmltv(seen.before.chans[i]) /\ ~RefByPlaylist(seen.before.chans[i])}

\* The channel is still stored: the record itself, or for a channel with a
\* tvg_id a record of that tvg_id as it was stored before the cycle.
Survives(ch) ==
    IF ch.tvg_id = "" THEN Has(chans, ch)
    ELSE \E j \in 1..Len(chans) :
            chans[j].tvg_id = ch.tvg_id /\ Has(seen.before.chans, chans[j])

\* C11 as claimed: a channel stored before a cycle that neither the XMLTV
\* feed nor the playlist referenced in the cycle is not in the store once
\* the cycle has settled, whatever the XMLTV fill did.
C11_UnreferencedChannelDropped ==
    CycleSettled =>
        \A i \in Unreferenced : ~Has(chans, seen.before.chans[i])

\* The merged set the playlist fill is about to write keeps the channel it
\* read from the store: for a channel with a tvg_id a record of that tvg_id
\* as it was read, for one without tvg_id the record itself.
KeptByMerge(ch) ==
    IF ch.tvg_id = "" THEN Has(merged[First], ch)
    ELSE \E j \in 1..Len(merged[First]) :
            merged[First][j].tvg_id = ch.tvg_id /\ Has(seen.read, merged[First][j])

\* C11 amended: a channel stored before a cycle that neither source
\* referenced is dropped only by an XMLTV fill that replaces the channel
\* collection or, when it has no tvg_id, by a playlist fill that writes its
\* merged set: the merged set keeps every channel with a tvg_id that the
\* fill read from the store and that the playlist does not reference (the
\* last one stored under that tvg_id), and none without tvg_id; so the
\* channel is gone after the cycle exactly when the XMLTV fill replaced the
\* collection, or it has no tvg_id and the playlist fill wrote.
C11_UnreferencedChannelKeptUnlessReplaced ==
    /\ pc[First] \in {"p_clear", "p_add"} =>
        \A i \in 1..Len(seen.read) :
            ~RefByPlaylist(seen.read[i]) =>
                (KeptByMerge(seen.read[i]) <=> seen.read[i].tvg_id # "")
    /\ CycleSettled =>
        \A i \in Unreferenced :
            LET ch == seen.before.chans[i] IN
            Survives(ch) <=> (~seen.xwrote /\ (ch.tvg_id # "" \/ ~seen.pwrote))

\* C11 witness: a cycle whose XMLTV fill was skipped or failed and whose
\* playlist fill wrote has settled; an unreferenced channel with a tvg_id is
\* still stored and an unreferenced channel without tvg_id is gone.
C11_Witness ==
    /\ CycleSettled /\ ~seen.xwrote /\ seen.pwrote
    /\ \E i \in Unreferenced :
        seen.before.chans[i].tvg_id # "" /\ Has(chans, seen.before.chans[i])
    /\ \E i \in Unreferenced :
        seen.before.chans[i].tvg_id = "" /\ ~Has(chans, seen.before.chans[i])

\* C12: once the playlist fill has written the merged set, every channel
\* without tvg_id that the fill read from the store is still in the store.
C12_ChannelsWithoutIdRemain ==
    (PFillEnded(First) /\ seen.pwrote) =>
        \A i \in 1..Len(seen.read) :
            seen.read[i].tvg_id = "" => Has(chans, seen.read[i])

\* No two channels of the list carry the same non-empty tvg_id.
NoSharedId(cs) ==
    \A i, j \in 1..Len(cs) :
        (i # j /\ cs[i].tvg_id # "") => cs[i].tvg_id # cs[j].tvg_id

\* C13: when a playlist fill that wrote its merged set returns, no two
\* channels in the store have the same non-empty tvg_id.
C13_StoreDeduplicatedById ==
    \A p \in Procs :
        (PFillEnded(p) /\ Has(ops[p], "addChannels")) => NoSharedId(chans)

\* A collection up to order and created_at.
UpToCreated(rs) == {[rs[i] EXCEPT !.created_at = 0] : i \in 1..Len(rs)}
SameUpToCreated(a, b) == Len(a) = Len(b) /\ UpToCreated(a) = UpToCreated(b)

\* Two forced cycles have run one after the other to their end and parsed
\* the same XMLTV document and the same playlist (or both none).
TwoForcedRuns ==
    /\ CycleSettled /\ force[First] /\ result[First] = "resolved"
    /\ seen.prev.ran /\ seen.prev.force /\ seen.prev.result = "resolved"
    /\ seen.xmltv = seen.prev.xmltv
    /\ seen.playlist = seen.prev.playlist

\* C14: after the second of two forced cycles run in sequence against the
\* same XMLTV and playlist contents, the channel and the programme
\* collections equal those after the first, up to created_at and order.
C14_ForcedCycleIdempotent ==
    TwoForcedRuns =>
        /\ SameUpToCreated(chans, seen.prev.chans)
        /\ SameUpToCreated(progs, seen.prev.progs)

\* C14 witness: both forced cycles parsed the feed and a playlist and
\* replaced channels and programmes, at different times, so the second
\* store differs from the first in created_at only.
C14_Witness ==
    /\ TwoForcedRuns
    /\ seen.xmltv = "xA" /\ seen.playlist # Null
    /\ seen.xwrote /\ seen.pwrote
    /\ progs # <<>>
    /\ chans # seen.prev.chans

\* ================================================ the pairing loop alone
\* Longest playlist given to the pairing loop.
MaxLines == 4

\* The physical lines a playlist can hold: #EXTINF: lines, URL lines,
\* comment and blank lines, and a comment and an #EXTINF: line that begin
\* with white space (they do not start with '#').
PairAlphabet ==
    {ExtInf("a", "A", "", "", ""), ExtInf("", "B", "", "", ""),
     UrlLine("http://u/1"), UrlLine("http://u/2"), CommentLine, BlankLine,
     [CommentLine EXCEPT !.lead = TRUE],
     [ExtInf("c", "C", "", "", "") EXCEPT !.lead = TRUE]}

notPair == <<chans, progs, cache, now, config, mrg, seen, epi, prs, chn, armed, timerSlot, calls, pc,
             force, content, data, merged, result, log, ops, snap, hit, parsed, staleAt,
             overlapped>>

PairInit ==
    /\ chans = <<>>
    /\ progs = <<>>
    /\ cache = [xmltv |-> Null, playlist |-> Null]
    /\ now = 1
    /\ config = [PLAYLIST |-> PlaylistUrl, STREAM_BASE_URL |-> ""]
    /\ mrg = MergeIdle
    /\ seen = NotSeen
    /\ epi = Off
    /\ chn = Off
    /\ prs = Off
    /\ armed = FALSE
    /\ timerSlot = 0
    /\ calls = 0
    /\ pc = [p \in Procs |-> "idle"]
    /\ force = [p \in Procs |-> FALSE]
    /\ content = [p \in Procs |-> Null]
    /\ data = [p \in Procs |-> EmptyXMLTVData]
    /\ merged = [p \in Procs |-> <<>>]
    /\ result = [p \in Procs |-> "none"]
    /\ log = [p \in Procs |-> <<>>]
    /\ ops = [p \in Procs |-> <<>>]
    /\ snap = [p \in Procs |-> EmptySnap]
    /\ hit = [p \in Procs |-> Null]
    /\ parsed = [p \in Procs |-> Null]
    /\ staleAt = [p \in Procs |-> FALSE]
    /\ overlapped = [p \in Procs |-> FALSE]
    /\ \E ls \in BoundedSeq(PairAlphabet, MaxLines) :
        pair = [stage |-> "loop", lines |-> ls, n |-> 0, pending |-> <<>>, at |-> 0,
                out |-> <<>>, from |-> <<>>]

\* One iteration: the line at position n + 1. at is the position of the
\* #EXTINF: line the pending record came from; from gives, for every record
\* pushed, the position of its #EXTINF: line and of the line that gave its url.
PairStep ==
    /\ pair.stage = "loop"
    /\ pair.n < Len(pair.lines)
    /\ LET line == pair.lines[pair.n + 1]
           r == PairOne(pair.pending, pair.out, line, now)
           pushed == Len(r.acc) > Len(pair.out) IN
        pair' = [pair EXCEPT !.n = @ + 1, !.pending = r.pending, !.out = r.acc,
                             !.at = IF StartsWithExtinf(line) THEN pair.n + 1
                                    ELSE IF r.pending = <<>> THEN 0 ELSE @,
                             !.from = IF pushed
                                      THEN Append(@, [extinf |-> pair.at, url |-> pair.n + 1])
                                      ELSE @]
    /\ UNCHANGED notPair

\* The loop is over; a pending record is dropped with the loop.
PairEnd ==
    /\ pair.stage = "loop"
    /\ pair.n = Len(pair.lines)
    /\ pair' = [pair EXCEPT !.stage = "done"]
    /\ UNCHANGED notPair

PairNext == PairStep \/ PairEnd

PairSpec == PairInit /\ [][PairNext]_vars

\* The line is an #EXTINF: line / a line the loop takes for a URL (it does
\* not start with '#' and is not blank).
IsExtinfAt(k) == StartsWithExtinf(pair.lines[k])
IsUrlAt(k) == ~StartsWithHash(pair.lines[k]) /\ Trim(pair.lines[k]) # ""

\* The lines the loop has gone through.
Gone == 1..pair.n

\* The #EXTINF: line at e is followed by another #EXTINF: line before any
\* URL line, or by the end of the input.
Superseded(e) ==
    \/ \E k \in Gone : k > e /\ IsExtinfAt(k) /\ \A u \in (e + 1)..(k - 1) : ~IsUrlAt(u)
    \/ pair.stage = "done" /\ \A u \in (e + 1)..Len(pair.lines) : ~IsUrlAt(u)

\* u is the first URL line after the #EXTINF: line at e, with no other
\* #EXTINF: line in between.
PairedWith(e, u) ==
    /\ u > e /\ IsUrlAt(u)
    /\ \A k \in (e + 1)..(u - 1) : ~IsUrlAt(k) /\ ~IsExtinfAt(k)

\* The records pushed for the #EXTINF: line at e.
RecordsOf(e) == {i \in 1..Len(pair.from) : pair.from[i].extinf = e}

\* C15: an #EXTINF: line followed by another #EXTINF: line before any URL
\* line, or by the end of the input, gives no record; and every #EXTINF:
\* line, also one that comes right after such a line, is paired with the
\* first URL line after it: the record pushed for it carries the attributes
\* of that #EXTINF: line and the trimmed text of that URL line.
C15_SupersededExtinfGivesNoRecord ==
    \A e \in Gone : IsExtinfAt(e) =>
        /\ Superseded(e) => RecordsOf(e) = {}
        /\ \A u \in Gone : PairedWith(e, u) =>
            \E i \in RecordsOf(e) :
                /\ pair.from[i].url = u
                /\ pair.out[i] = [fromPlaylistLine(pair.lines[e]) EXCEPT
                                    !.url = Trim(pair.lines[u]), !.created_at = now]

\* C15 witness: the first #EXTINF: line was followed by a second one, the
\* second one by a comment and then a URL line; one record has been pushed,
\* for the second line.
C15_Witness ==
    /\ pair.stage = "done" /\ Len(pair.lines) = MaxLines
    /\ IsExtinfAt(1) /\ IsExtinfAt(2) /\ pair.lines[1] # pair.lines[2]
    /\ StartsWithHash(pair.lines[3]) /\ PairedWith(2, 4)
    /\ Len(pair.out) = 1 /\ pair.from[1].extinf = 2

\* No record is pending when the loop comes to line u: every #EXTINF: line
\* before it has had its URL line.
NonePendingAt(u) ==
    \A e \in 1..(u - 1) : IsExtinfAt(e) => \E k \in (e + 1)..(u - 1) : IsUrlAt(k)

\* C20: every #EXTINF: line gives at most one record; every record pushed
\* comes from an #EXTINF: line and has a non-empty url, the trimmed text of
\* the first line after that #EXTINF: line that does not start with '#' and
\* is not blank (comment and blank lines in between leave the pending
\* record alone); and a URL line met while no record is pending gives
\* none.
C20_PairingLoopInvariants ==
    /\ \A e \in Gone : Cardinality(RecordsOf(e)) <= 1
    /\ Len(pair.from) = Len(pair.out)
    /\ \A i \in 1..Len(pair.out) :
        LET e == pair.from[i].extinf
            u == pair.from[i].url IN
        /\ e \in Gone /\ u \in Gone /\ e < u
        /\ IsExtinfAt(e)
        /\ pair.out[i].url # ""
        /\ pair.out[i].url = Trim(pair.lines[u])
        /\ IsUrlAt(u)
        /\ \A k \in (e + 1)..(u - 1) : ~IsUrlAt(k)
    /\ \A u \in Gone :
        (IsUrlAt(u) /\ NonePendingAt(u)) =>
            \A i \in 1..Len(pair.from) : pair.from[i].url # u

\* C20 witness: an #EXTINF: line, a comment or blank line, its URL line and
\* a second URL line have been gone through; one record has been pushed,
\* with the url of the first URL line.
C20_Witness ==
    /\ pair.stage = "done" /\ Len(pair.lines) = MaxLines
    /\ IsExtinfAt(1) /\ ~IsUrlAt(2) /\ ~IsExtinfAt(2) /\ IsUrlAt(3) /\ IsUrlAt(4)
    /\ Len(pair.out) = 1
    /\ pair.out[1].url = Trim(pair.lines[3])

\* ============================================ parseEpisodeNumber alone
\* Longest list of episode-num elements of one programme.
MaxEpisodeNums == 2

EpisodeTexts == {"S0E5", "S2E27", "s1e0", "E5", "1.26.0/1", "0.0.", "4", ".3."}

\* /S(\d+)E(\d+)/i matches at position i
OnscreenAt(cs, i) ==
    /\ cs[i] \in {"S", "s"}
    /\ RunEnd(cs, i + 1) >= i + 1
    /\ RunEnd(cs, i + 1) + 1 <= Len(cs)
    /\ cs[RunEnd(cs, i + 1) + 1] \in {"E", "e"}
    /\ RunEnd(cs, RunEnd(cs, i + 1) + 2) >= RunEnd(cs, i + 1) + 2

\* value.match(/S(\d+)E(\d+)/i): the leftmost match and its two groups
OnscreenMatch(cs) ==
    IF \E i \in 1..Len(cs) : OnscreenAt(cs, i)
    THEN LET i == CHOOSE k \in 1..Len(cs) :
                    OnscreenAt(cs, k) /\ \A m \in 1..(k - 1) : ~OnscreenAt(cs, m)
             j == RunEnd(cs, i + 1)
         IN [found |-> TRUE, g1 |-> SubSeq(cs, i + 1, j),
             g2 |-> SubSeq(cs, j + 2, RunEnd(cs, j + 2))]
    ELSE [found |-> FALSE, g1 |-> <<>>, g2 |-> <<>>]

\* value.split('.')
RECURSIVE SplitDots(_, _, _)
SplitDots(cs, part, parts) ==
    IF cs = <<>> THEN Append(parts, part)
    ELSE IF Head(cs) = "." THEN SplitDots(Tail(cs), <<>>, Append(parts, part))
    ELSE SplitDots(Tail(cs), Append(part, Head(cs)), parts)

\* number | undefined
Undefined == [set |-> FALSE, val |-> 0]
Number(n) == [set |-> TRUE, val |-> n]
\* !season
Falsy(x) == ~x.set \/ x.val = 0

\* an episode-num element: its system attribute and its text
EpisodeNumEl(system, value) == [kind |-> "object", text |-> value, system |-> system]

\* One iteration of the loop of parseEpisodeNumber (264-286)
EpisodeOne(acc, epNum) ==
    LET value == extractTextContent(epNum)
        m == OnscreenMatch(Chars(value))
        nsParts == SplitDots(Chars(value), <<>>, <<>>) IN
    IF epNum.system = "onscreen"
    THEN IF m.found
         THEN [episodeNum |-> value, season |-> Number(DigitsValue(m.g1)),
               episode |-> Number(DigitsValue(m.g2))]
         ELSE [acc EXCEPT !.episodeNum = value]
    ELSE IF epNum.system = "xmltv_ns" /\ Falsy(acc.season)
    THEN IF Len(nsParts) >= 2 /\ nsParts[1] # <<>> /\ nsParts[2] # <<>>
         THEN [acc EXCEPT
                 !.season = IF ~ParseInt(nsParts[1]).nan
                            THEN Number(ParseInt(nsParts[1]).val + 1) ELSE @,
                 !.episode = IF ~ParseInt(nsParts[2]).nan
                             THEN Number(ParseInt(nsParts[2]).val + 1) ELSE @]
         ELSE acc
    ELSE acc

NoEpisode == [episodeNum |-> "", season |-> Undefined, episode |-> Undefined]

\* parseEpisodeNumber over the first n elements
RECURSIVE parseEpisodeNumber(_, _)
parseEpisodeNumber(els, n) ==
    IF n = 0 THEN NoEpisode
    ELSE EpisodeOne(parseEpisodeNumber(els, n - 1), els[n])

EpisodeNumEls ==
    {EpisodeNumEl(system, value) :
        system \in {"onscreen", "xmltv_ns", "dd_progid"}, value \in EpisodeTexts}

notEpi == <<chans, progs, cache, now, config, mrg, seen, pair, prs, chn, armed, timerSlot, calls, pc,
            force, content, data, merged, result, log, ops, snap, hit, parsed, staleAt,
            overlapped>>

EpiInit ==
    /\ chans = <<>>
    /\ progs = <<>>
    /\ cache = [xmltv |-> Null, playlist |-> Null]
    /\ now = 0
    /\ config = [PLAYLIST |-> "", STREAM_BASE_URL |-> ""]
    /\ mrg = MergeIdle
    /\ seen = NotSeen
    /\ pair = Off
    /\ prs = Off
    /\ chn = Off
    /\ armed = FALSE
    /\ timerSlot = 0
    /\ calls = 0
    /\ pc = [p \in Procs |-> "idle"]
    /\ force = [p \in Procs |-> FALSE]
    /\ content = [p \in Procs |-> Null]
    /\ data = [p \in Procs |-> EmptyXMLTVData]
    /\ merged = [p \in Procs |-> <<>>]
    /\ result = [p \in Procs |-> "none"]
    /\ log = [p \in Procs |-> <<>>]
    /\ ops = [p \in Procs |-> <<>>]
    /\ snap = [p \in Procs |-> EmptySnap]
    /\ hit = [p \in Procs |-> Null]
    /\ parsed = [p \in Procs |-> Null]
    /\ staleAt = [p \in Procs |-> FALSE]
    /\ overlapped = [p \in Procs |-> FALSE]
    /\ \E els \in BoundedSeq(EpisodeNumEls, MaxEpisodeNums) :
        epi = [stage |-> "loop", els |-> els, n |-> 0, acc |-> NoEpisode]

\* for (const epNum of episodeNumElements)
EpiStep ==
    /\ epi.stage = "loop"
    /\ epi.n < Len(epi.els)
    /\ epi' = [epi EXCEPT !.n = @ + 1, !.acc = parseEpisodeNumber(epi.els, epi.n + 1)]
    /\ UNCHANGED notEpi

\* return { episodeNum, season, episode }
EpiReturn ==
    /\ epi.stage = "loop"
    /\ epi.n = Len(epi.els)
    /\ epi' = [epi EXCEPT !.stage = "done"]
    /\ UNCHANGED notEpi

EpiNext == EpiStep \/ EpiReturn

EpiSpec == EpiInit /\ [][EpiNext]_vars

\* The episode-num elements of the programme with an onscreen value of the
\* form S<season>E<episode>, and those of system xmltv_ns.
OnscreenEls ==
    {i \in 1..Len(epi.els) :
        epi.els[i].system = "onscreen" /\ OnscreenMatch(Chars(epi.els[i].text)).found}
XmltvNsEls == {i \in 1..Len(epi.els) : epi.els[i].system = "xmltv_ns"}

MaxProgrammes == 3

\* Programme elements: complete ones (also with start = stop), ones without
\* start, without stop, without both, and one without attributes.
ProgrammeEls ==
    {ProgrammeEl(1, 2, "a", Str("t1")), ProgrammeEl(2, 2, "b", Obj("t2")),
     ProgrammeEl(0, 2, "a", Str("t3")), ProgrammeEl(1, 0, "a", Absent),
     ProgrammeEl(0, 0, "b", Str("t5")), BareProgrammeEl(Str("t6"))}

notPrs == <<chans, progs, cache, now, config, mrg, seen, pair, epi, chn, armed, timerSlot, calls, pc,
            force, content, data, merged, result, log, ops, snap, hit, parsed, staleAt,
            overlapped>>

PrsInit ==
    /\ chans = <<>>
    /\ progs = <<>>
    /\ cache = [xmltv |-> Null, playlist |-> Null]
    /\ now = 1
    /\ config = [PLAYLIST |-> "", STREAM_BASE_URL |-> ""]
    /\ mrg = MergeIdle
    /\ seen = NotSeen
    /\ pair = Off
    /\ epi = Off
    /\ chn = Off
    /\ armed = FALSE
    /\ timerSlot = 0
    /\ calls = 0
    /\ pc = [p \in Procs |-> "idle"]
    /\ force = [p \in Procs |-> FALSE]
    /\ content = [p \in Procs |-> Null]
    /\ data = [p \in Procs |-> EmptyXMLTVData]
    /\ merged = [p \in Procs |-> <<>>]
    /\ result = [p \in Procs |-> "none"]
    /\ log = [p \in Procs |-> <<>>]
    /\ ops = [p \in Procs |-> <<>>]
    /\ snap = [p \in Procs |-> EmptySnap]
    /\ hit = [p \in Procs |-> Null]
    /\ parsed = [p \in Procs |-> Null]
    /\ staleAt = [p \in Procs |-> FALSE]
    /\ overlapped = [p \in Procs |-> FALSE]
    /\ \E els \in BoundedSeq(ProgrammeEls, MaxProgrammes) :
        prs = [stage |-> "loop", els |-> els, n |-> 0, out |-> <<>>, full |-> <<>>,
               only |-> <<>>]

\* The document whose programme list is els.
DocOf(els) == [readable |-> TRUE, wellformed |-> TRUE, channel |-> <<>>, programme |-> els]

\* for (const programme of parsedXml.tv.programme): one more element
PrsStep ==
    /\ prs.stage = "loop"
    /\ prs.n < Len(prs.els)
    /\ prs' = [prs EXCEPT !.n = @ + 1,
                          !.out = ParseProgrammes(SubSeq(prs.els, 1, prs.n + 1), now)]
    /\ UNCHANGED notPrs

\* what parseXMLTVFull and parseXMLTV return for the document
PrsReturn ==
    /\ prs.stage = "loop"
    /\ prs.n = Len(prs.els)
    /\ prs' = [prs EXCEPT !.stage = "done",
                          !.full = parseXMLTVFull(DocOf(prs.els), "", now).programmes,
                          !.only = parseXMLTV(DocOf(prs.els), now)]
    /\ UNCHANGED notPrs

PrsNext == PrsStep \/ PrsReturn

PrsSpec == PrsInit /\ [][PrsNext]_vars

\* The element has both start and stop.
HasTimes(el) == el.attrs /\ el.start # 0 /\ el.stop # 0

\* The entries of the elements of els that have both times, in input order.
EntriesOfTimed(els) ==
    LET timed == SelectSeq(els, HasTimes) IN
    [i \in 1..Len(timed) |-> parseProgrammeEntry(timed[i], now)]

\* C17: whatever the list of programme elements, the loop has so far
\* returned exactly the entries of the elements gone through that have both
\* start and stop, in input order, and parseXMLTVFull and parseXMLTV return
\* exactly those of the whole list: an element without start, without stop
\* or without attributes is left out and no other element with it.
C17_PartialSuccessParsing ==
    /\ prs.stage # "off" => prs.out = EntriesOfTimed(SubSeq(prs.els, 1, prs.n))
    /\ prs.stage = "done" =>
        /\ prs.full = EntriesOfTimed(prs.els)
        /\ prs.only = EntriesOfTimed(prs.els)

\* C17 witness: a list with a complete element, then one without
\* attributes or times, then a complete one has been parsed; both complete
\* elements were returned.
C17_Witness ==
    /\ prs.stage = "done" /\ Len(prs.els) = MaxProgrammes
    /\ HasTimes(prs.els[1]) /\ ~HasTimes(prs.els[2]) /\ HasTimes(prs.els[MaxProgrammes])
    /\ Len(prs.full) = Len(prs.els) - 1
    /\ Len(prs.only) = Len(prs.els) - 1

\* The programmes of the document the XMLTV fill of the caller has parsed.
NewProgrammes ==
    IF parsed[First] = Null THEN <<>>
    ELSE parseXMLTVFull(XmlDoc(parsed[First]), "", 0).programmes

\* C18: during and after an XMLTV fill that parsed at least one programme,
\* the programme collection is either the complete set from before the fill
\* or the complete newly parsed set, never an empty or partial set.
C18_ProgrammesReplacedAtomically ==
    (InXFill(First) /\ NewProgrammes # <<>>) =>
        \/ progs = snap[First].progs
        \/ SameUpToCreated(progs, NewProgrammes)

\* C19: an unforced call of downloadCacheAndFillDb that has settled has
\* armed the periodic scheduler, whatever its fills met.
C19_UnforcedCallArmsScheduler ==
    (CycleSettled /\ ~force[First]) => Has(log[First], "schedule")


\* =============================================== parseChannelEntry alone
\* Longest list of display-name elements of one channel element.
MaxDisplayNames == 3

\* display-name elements: names, digits only, digits with leading zeros,
\* digits followed by a letter, a digit followed by words, and elements
\* whose text is empty (an empty string, an object with attributes only).
DisplayNameEls ==
    {Str("Alpha"), Obj("5 News"), Str("7"), Obj("102"), Str("007"), Str("12a"),
     AttrsOnly, Str("")}

\* config.STREAM_BASE_URL: unset, with the placeholder, without it.
StreamTemplates == {"", "http://s/{channel}", "http://s/live"}

notChn == <<chans, progs, cache, now, mrg, seen, pair, epi, prs, armed, timerSlot, calls, pc,
            force, content, data, merged, result, log, ops, snap, hit, parsed, staleAt,
            overlapped, config>>

ChnInit ==
    /\ chans = <<>>
    /\ progs = <<>>
    /\ cache = [xmltv |-> Null, playlist |-> Null]
    /\ now = 1
    /\ config \in [PLAYLIST : {""}, STREAM_BASE_URL : StreamTemplates]
    /\ mrg = MergeIdle
    /\ seen = NotSeen
    /\ pair = Off
    /\ epi = Off
    /\ prs = Off
    /\ armed = FALSE
    /\ timerSlot = 0
    /\ calls = 0
    /\ pc = [p \in Procs |-> "idle"]
    /\ force = [p \in Procs |-> FALSE]
    /\ content = [p \in Procs |-> Null]
    /\ data = [p \in Procs |-> EmptyXMLTVData]
    /\ merged = [p \in Procs |-> <<>>]
    /\ result = [p \in Procs |-> "none"]
    /\ log = [p \in Procs |-> <<>>]
    /\ ops = [p \in Procs |-> <<>>]
    /\ snap = [p \in Procs |-> EmptySnap]
    /\ hit = [p \in Procs |-> Null]
    /\ parsed = [p \in Procs |-> Null]
    /\ staleAt = [p \in Procs |-> FALSE]
    /\ overlapped = [p \in Procs |-> FALSE]
    /\ \E names \in BoundedSeq(DisplayNameEls, MaxDisplayNames) :
        chn = [stage |-> "loop", el |-> ChannelEl("a", names, "la"), n |-> 0,
               tvgName |-> "", channelNumber |-> "", out |-> Null]

\* for (const displayName of displayNames): one more display-name
ChnStep ==
    /\ chn.stage = "loop"
    /\ chn.n < Len(chn.el.names)
    /\ chn' = [chn EXCEPT !.n = @ + 1,
                          !.tvgName = FirstNonEmpty(SubSeq(chn.el.names, 1, chn.n + 1)),
                          !.channelNumber = FirstNumeric(SubSeq(chn.el.names, 1, chn.n + 1))]
    /\ UNCHANGED notChn

\* return { xui_id, tvg_id, tvg_name, ..., url, ... }
ChnReturn ==
    /\ chn.stage = "loop"
    /\ chn.n = Len(chn.el.names)
    /\ chn' = [chn EXCEPT !.stage = "done",
                          !.out = parseChannelEntry(chn.el, config.STREAM_BASE_URL, now)]
    /\ UNCHANGED notChn

ChnNext == ChnStep \/ ChnReturn

ChnSpec == ChnInit /\ [][ChnNext]_vars

\* The texts of the display-names of the channel element, in order.
DisplayTexts ==
    [i \in 1..Len(chn.el.names) |-> extractTextContent(chn.el.names[i])]

\* The display-names that consist only of digits.
DigitOnly == {i \in 1..Len(chn.el.names) : IsNumericName(DisplayTexts[i])}

\* The channel number: the first display-name that consists only of
\* digits, "" when there is none.
ChannelNumber ==
    IF DigitOnly = {} THEN ""
    ELSE DisplayTexts[CHOOSE i \in DigitOnly : \A k \in DigitOnly : i <= k]

\* C21: for a channel element with a list of display-names, tvg_name is the
\* text of the first display-name, xui_id is the value of the first
\* display-name that consists only of digits (0 when there is none), and url
\* is the template with {channel} replaced by that display-name when there
\* are both a template and such a display-name, else the empty string.
C21_ChannelFieldsFromDisplayNames ==
    chn.stage = "done" =>
        /\ chn.el.names # <<>> => chn.out.tvg_name = DisplayTexts[1]
        /\ chn.out.xui_id = IF ChannelNumber = "" THEN 0
                            ELSE DigitsValue(Chars(ChannelNumber))
        /\ chn.out.url = IF config.STREAM_BASE_URL # "" /\ ChannelNumber # ""
                         THEN ReplaceChannel(config.STREAM_BASE_URL, ChannelNumber)
                         ELSE ""

====
